---- MODULE Spec2Model ----
(***************************************************************************)
(* flowy-sidecar core/parser.rs: the line-delimited JSON message reader    *)
(* (MessageReader::next / MessageReader::parse) and the three response     *)
(* parsers (ChatResponseParser, ChatRelatedQuestionsResponseParser,        *)
(* SimilarityResponseParser).                                              *)
(*                                                                         *)
(* Text is a sequence of one-character strings.  A JSON value is a tagged  *)
(* tuple: <<"null">>, <<"bool", b>>, <<"num", n>>, <<"str", chars>>,       *)
(* <<"arr", seq of values>>, <<"obj", function from keys to values>>.      *)
(* A Result is <<"Ok", v>> or an error tuple <<kind, ...>>.                *)
(***************************************************************************)
EXTENDS Integers, Sequences, FiniteSets, TLC

VARIABLES input, pos, buf, readRet, parseArg, calls, ioSeen,
          op, text, result, payload, parser, outcome

readerVars == <<input, pos, buf, readRet, parseArg, calls, ioSeen>>
respVars == <<payload, parser, outcome>>
vars == <<input, pos, buf, readRet, parseArg, calls, ioSeen,
          op, text, result, payload, parser, outcome>>

----------------------------------------------------------------------------
(* Bounds *)

\* longest text enumerated exhaustively over Chars
MaxLen == 4
\* most lines in an input stream
MaxLines == 3
\* most calls of next on one reader
MaxCalls == 5
\* longest array enumerated in a response payload
MaxArr == 3

----------------------------------------------------------------------------
(* Characters and texts *)

Quote == "\""
NL == "\n"
\* JSON insignificant whitespace
Ws == {" ", "\n", "\t", "\r"}
\* characters below U+0020, which may not appear raw inside a JSON string
Control == {"\n", "\t", "\r"}
Digits == {"0", "1", "2", "3", "4", "5", "6", "7", "8", "9"}

DigitVal(c) ==
  CASE c = "0" -> 0 [] c = "1" -> 1 [] c = "2" -> 2 [] c = "3" -> 3
    [] c = "4" -> 4 [] c = "5" -> 5 [] c = "6" -> 6 [] c = "7" -> 7
    [] c = "8" -> 8 [] c = "9" -> 9

NullLit == <<"n", "u", "l", "l">>
TrueLit == <<"t", "r", "u", "e">>
FalseLit == <<"f", "a", "l", "s", "e">>

MessageKey == <<"m", "e", "s", "s", "a", "g", "e">>
DataKey == <<"d", "a", "t", "a">>
ScoreKey == <<"s", "c", "o", "r", "e">>

----------------------------------------------------------------------------
(* serde_json::Value *)

JNull == <<"null">>
JBool(b) == <<"bool", b>>
JNum(n) == <<"num", n>>
JStr(s) == <<"str", s>>
JArr(a) == <<"arr", a>>
JObj(o) == <<"obj", o>>

EmptyMap == [k \in {} |-> k]
\* Map::insert: a later value for the same key replaces the earlier one
Insert(o, k, v) == [x \in (DOMAIN o) \cup {k} |-> IF x = k THEN v ELSE o[x]]

\* mutant of IsObject: arrays pass as objects too
IsObject_orArray(v) == v[1] \in {"obj", "arr"}

\* Value::is_object
IsObject(v) == v[1] = "obj"

----------------------------------------------------------------------------
(* serde_json::from_str::<Value>: a recursive-descent reading of one JSON  *)
(* document.  A parse step yields <<"ok", value, next index>> or <<"err">>.*)

PErr == <<"err">>
POk(v, j) == <<"ok", v, j>>

RECURSIVE SkipWs(_, _)
SkipWs(s, i) ==
  IF i <= Len(s) /\ s[i] \in Ws THEN SkipWs(s, i + 1) ELSE i

\* a literal null / true / false starting at i
ParseLit(s, i, lit, v) ==
  IF i + Len(lit) - 1 <= Len(s) /\ SubSeq(s, i, i + Len(lit) - 1) = lit
  THEN POk(v, i + Len(lit))
  ELSE PErr

RECURSIVE FindQuote(_, _)
\* index of the first quote at or after i, Len(s) + 1 when there is none
FindQuote(s, i) ==
  IF i > Len(s) \/ s[i] = Quote THEN i ELSE FindQuote(s, i + 1)

\* a string whose opening quote is at i; raw control characters and
\* an unterminated string are errors (escapes: "\\" is not in the alphabet)
ParseStr(s, i) ==
  LET j == FindQuote(s, i + 1) IN
  IF j > Len(s) THEN PErr
  ELSE IF \E k \in (i + 1)..(j - 1) : s[k] \in Control \/ s[k] = "\\" THEN PErr
  ELSE POk(JStr(SubSeq(s, i + 1, j - 1)), j + 1)

RECURSIVE DigitsEnd(_, _)
\* index just past the run of digits starting at i
DigitsEnd(s, i) ==
  IF i <= Len(s) /\ s[i] \in Digits THEN DigitsEnd(s, i + 1) ELSE i

RECURSIVE Decimal(_)
Decimal(ds) ==
  IF ds = <<>> THEN 0
  ELSE 10 * Decimal(SubSeq(ds, 1, Len(ds) - 1)) + DigitVal(ds[Len(ds)])

\* an unsigned integer starting at i; a leading zero followed by a digit
\* is "invalid number"
ParseNum(s, i) ==
  IF s[i] = "0"
  THEN IF i + 1 <= Len(s) /\ s[i + 1] \in Digits THEN PErr ELSE POk(JNum(0), i + 1)
  ELSE LET j == DigitsEnd(s, i) IN POk(JNum(Decimal(SubSeq(s, i, j - 1))), j)

RECURSIVE ParseValue(_, _), ParseElems(_, _, _), ParseMembers(_, _, _)

\* the value starting at i (whitespace before it already skipped)
ParseValue(s, i) ==
  IF i > Len(s) THEN PErr
  ELSE CASE s[i] = "n" -> ParseLit(s, i, NullLit, JNull)
         [] s[i] = "t" -> ParseLit(s, i, TrueLit, JBool(TRUE))
         [] s[i] = "f" -> ParseLit(s, i, FalseLit, JBool(FALSE))
         [] s[i] = Quote -> ParseStr(s, i)
         [] s[i] \in Digits -> ParseNum(s, i)
         [] s[i] = "[" ->
              LET k == SkipWs(s, i + 1) IN
              IF k <= Len(s) /\ s[k] = "]" THEN POk(JArr(<<>>), k + 1)
              ELSE ParseElems(s, k, <<>>)
         [] s[i] = "{" ->
              LET k == SkipWs(s, i + 1) IN
              IF k <= Len(s) /\ s[k] = "}" THEN POk(JObj(EmptyMap), k + 1)
              ELSE ParseMembers(s, k, EmptyMap)
         [] OTHER -> PErr

\* the elements of an array from i on, acc holding those already read
ParseElems(s, i, acc) ==
  LET r == ParseValue(s, i) IN
  IF r[1] # "ok" THEN PErr
  ELSE LET k == SkipWs(s, r[3]) IN
       IF k > Len(s) THEN PErr
       ELSE IF s[k] = "," THEN ParseElems(s, SkipWs(s, k + 1), Append(acc, r[2]))
       ELSE IF s[k] = "]" THEN POk(JArr(Append(acc, r[2])), k + 1)
       ELSE PErr

\* the members of an object from i on, o holding those already read
ParseMembers(s, i, o) ==
  IF i > Len(s) \/ s[i] # Quote THEN PErr
  ELSE LET ks == ParseStr(s, i) IN
       IF ks[1] # "ok" THEN PErr
       ELSE LET c == SkipWs(s, ks[3]) IN
            IF c > Len(s) \/ s[c] # ":" THEN PErr
            ELSE LET r == ParseValue(s, SkipWs(s, c + 1)) IN
                 IF r[1] # "ok" THEN PErr
                 ELSE LET k == SkipWs(s, r[3])
                          o2 == Insert(o, ks[2][2], r[2])
                      IN IF k > Len(s) THEN PErr
                         ELSE IF s[k] = "," THEN ParseMembers(s, SkipWs(s, k + 1), o2)
                         ELSE IF s[k] = "}" THEN POk(JObj(o2), k + 1)
                         ELSE PErr

\* one whole document: leading and trailing whitespace allowed, anything
\* else after the value is "trailing characters"
FromStr(s) ==
  LET r == ParseValue(s, SkipWs(s, 1)) IN
  IF r[1] # "ok" THEN <<"Err">>
  ELSE IF SkipWs(s, r[3]) <= Len(s) THEN <<"Err">>
  ELSE <<"Ok", r[2]>>

----------------------------------------------------------------------------
(* MessageReader::parse *)

\* json!({"message": s.to_string()})
MessageObject(s) == JObj([k \in {MessageKey} |-> JStr(s)])

\* mutant of Parse: text that is not JSON is reported as an error
Parse_strict(s) ==
  LET r == FromStr(s) IN
  IF r[1] = "Ok"
  THEN IF ~IsObject(r[2]) THEN <<"NotObject", s>> ELSE <<"Ok", r[2]>>
  ELSE <<"NotObject", s>>

\* mutant of Parse: the is_object test is missing
Parse_anyValue(s) ==
  LET r == FromStr(s) IN
  IF r[1] = "Ok" THEN <<"Ok", r[2]>> ELSE <<"Ok", MessageObject(s)>>

Parse(s) ==
  LET r == FromStr(s) IN
  IF r[1] = "Ok"
  THEN IF ~IsObject(r[2]) THEN <<"NotObject", s>> ELSE <<"Ok", r[2]>>
  ELSE <<"Ok", MessageObject(s)>>

----------------------------------------------------------------------------
(* Inputs *)

Chars == {"{", "}", "[", "]", Quote, ":", ",", "1", "n", "u", "l", NL}

SeqsUpTo(S, n) == UNION {[1..m -> S] : m \in 0..n}

Samples ==
  { <<"{", Quote, "a", Quote, ":", "1", "}">>,
    <<"{", Quote, "a", Quote, ":", "1", "}", NL>>,
    <<"{", Quote, "a", Quote, ":", "1", ",", Quote, "a", Quote, ":", "0", "}">>,
    <<"{", Quote, "a", Quote, ":", "1">>,
    <<"{", Quote, "a", Quote, "1", "}">>,
    <<"{", "a", ":", "1", "}">>,
    <<"[", "1", ",", "2", ",", "3", "]">>,
    <<"[", "1", ",", "]">>,
    <<Quote, "h", "e", "l", "l", "o", Quote>>,
    <<"4", "2">>, <<"0", "1">>,
    <<"t", "r", "u", "e">>, <<"f", "a", "l", "s", "e">>, <<"t", "r", "u">>,
    <<"n", "o", "t", " ", "j", "s", "o", "n">> }

Texts == SeqsUpTo(Chars, MaxLen) \cup Samples


\* line contents a stream is built from (terminator not included)
LineBodies ==
  { <<>>,
    <<"{", "}">>,
    <<"{", Quote, "a", Quote, ":", "1", "}">>,
    <<"[", "1", "]">>,
    <<"n", "u", "l">>,
    <<Quote, "a", Quote>> }

RECURSIVE Terminated(_)
\* the streams of at most n lines, each ended by its terminator
Terminated(n) ==
  IF n = 0 THEN {<<>>}
  ELSE LET P == Terminated(n - 1) IN
       P \cup {s \o b \o <<NL>> : s \in P, b \in LineBodies}

\* a stream may also end in a last line that has no terminator
Streams ==
  Terminated(MaxLines) \cup
  {s \o b : s \in Terminated(MaxLines - 1), b \in LineBodies \ {<<>>}}

\* texts handed to parse directly while a reader is in use
DirectTexts == {<<"[", "1", "]">>, <<"n", "u", "l">>, <<"{", "}">>}

----------------------------------------------------------------------------
(* std::io::BufRead::read_line over the stream input, pos characters of    *)
(* which are already consumed                                              *)

RECURSIVE LineEnd(_, _)
\* index of the last character of the line starting at i: its terminator,
\* or the end of the stream
LineEnd(s, i) ==
  IF i >= Len(s) THEN Len(s)
  ELSE IF s[i] = NL THEN i ELSE LineEnd(s, i + 1)

ReadLine(s, p) == SubSeq(s, p + 1, LineEnd(s, p + 1))

\* a read either succeeds with the whole line, or fails having appended
\* some of the characters before the terminator
ReadLineOutcomes(s, p) ==
  LET line == ReadLine(s, p)
      body == IF line # <<>> /\ line[Len(line)] = NL THEN Len(line) - 1 ELSE Len(line)
  IN {[ok |-> TRUE, data |-> line]} \cup
     {[ok |-> FALSE, data |-> SubSeq(line, 1, n)] : n \in 0..body}

----------------------------------------------------------------------------
(* MessageReader::next *)

\* mutant of Clear: the buffer keeps what the earlier call read
Clear_keep(b) == b

\* self.0.clear()
Clear(b) == <<>>

\* mutant of NextOutcome: a line of whitespace only counts as empty
NextOutcome_trim(ok, b) ==
  IF ~ok THEN [result |-> <<"Io">>, parseArg |-> <<"None">>]
  ELSE IF SkipWs(b, 1) > Len(b) THEN [result |-> <<"Disconnect">>, parseArg |-> <<"None">>]
  ELSE [result |-> Parse(b), parseArg |-> <<"Some", b>>]

\* mutant of NextOutcome: the failure of read_line is ignored
NextOutcome_swallow(ok, b) ==
  IF b = <<>> THEN [result |-> <<"Disconnect">>, parseArg |-> <<"None">>]
  ELSE [result |-> Parse(b), parseArg |-> <<"Some", b>>]

\* what next returns once read_line has returned, b being the buffer
NextOutcome(ok, b) ==
  IF ~ok THEN [result |-> <<"Io">>, parseArg |-> <<"None">>]
  ELSE IF b = <<>> THEN [result |-> <<"Disconnect">>, parseArg |-> <<"None">>]
  ELSE [result |-> Parse(b), parseArg |-> <<"Some", b>>]

MessageReaderNext ==
  /\ calls < MaxCalls
  /\ \E rd \in ReadLineOutcomes(input, pos) :
       LET filled == Clear(buf) \o rd.data
           out == NextOutcome(rd.ok, filled)
       IN /\ buf' = filled
          /\ pos' = pos + Len(rd.data)
          /\ readRet' = IF rd.ok THEN <<"Ok", Len(rd.data)>> ELSE <<"Err">>
          /\ result' = out.result
          /\ parseArg' = out.parseArg
          /\ calls' = calls + 1
          /\ ioSeen' = (ioSeen \/ ~rd.ok)
          /\ op' = "next"
  /\ UNCHANGED <<input, text, respVars>>

----------------------------------------------------------------------------
(* Direct call of parse *)

ParseCall ==
  /\ result' = Parse(text)
  /\ op' = "parse"
  /\ UNCHANGED <<readerVars, text, respVars>>

IdleReader ==
  /\ input = <<>> /\ pos = 0 /\ buf = <<>>
  /\ readRet = <<"None">> /\ parseArg = <<"None">>
  /\ calls = 0 /\ ioSeen = FALSE

IdleResp ==
  /\ payload = JNull /\ parser = "none" /\ outcome = <<"None">>

InitParse ==
  /\ IdleReader /\ IdleResp
  /\ op = "none" /\ result = <<"None">>
  /\ text \in Texts

NextParse == ParseCall

SpecParse == InitParse /\ [][NextParse]_vars

Init ==
  /\ input \in Streams /\ pos = 0 /\ buf = <<>>
  /\ readRet = <<"None">> /\ parseArg = <<"None">>
  /\ calls = 0 /\ ioSeen = FALSE
  /\ op = "none" /\ result = <<"None">>
  /\ text \in DirectTexts
  /\ IdleResp

Next == MessageReaderNext \/ ParseCall

Spec == Init /\ [][Next]_vars


----------------------------------------------------------------------------
(* Response payloads *)

OtherKey == <<"x">>

Scalars == {JNull, JBool(TRUE), JNum(1), JStr(<<"h", "i">>)}
Elems == {JNum(1), JStr(<<"a">>), JBool(TRUE), JObj(EmptyMap)}
Arrays == {JArr(a) : a \in SeqsUpTo(Elems, MaxArr)}

\* every map from a subset of keys into vals
MapsOver(keys, vals) == UNION {[K -> vals] : K \in SUBSET keys}

ScoreObjs == {JObj(m) : m \in MapsOver({ScoreKey, OtherKey}, Scalars)}
DataValues == Scalars \cup Arrays \cup ScoreObjs

NoData == MapsOver({OtherKey}, {JNum(1)})
Payloads ==
  Scalars \cup Arrays \cup {JObj(m) : m \in NoData} \cup
  {JObj(Insert(m, DataKey, d)) : m \in NoData, d \in DataValues}

----------------------------------------------------------------------------
(* serde_json::Value accessors; an Option is <<"Some", x>> or <<"None">> *)

\* Value::get(&str): a member of an object, None on any other value
Get(v, k) ==
  IF v[1] = "obj" /\ k \in DOMAIN v[2] THEN <<"Some", v[2][k]>> ELSE <<"None">>

\* Value::as_str
AsStr(v) == IF v[1] = "str" THEN <<"Some", v[2]>> ELSE <<"None">>

\* mutant of AsArray: an empty array counts as no array
AsArray_nonEmpty(v) ==
  IF v[1] = "arr" /\ v[2] # <<>> THEN <<"Some", v[2]>> ELSE <<"None">>

\* Value::as_array
AsArray(v) == IF v[1] = "arr" THEN <<"Some", v[2]>> ELSE <<"None">>

\* Value::as_f64: every JSON number converts; the integers of this model
\* are below 2^53, so the f64 is the same number
AsF64(v) == IF v[1] = "num" THEN <<"Some", v[2]>> ELSE <<"None">>

InvalidResponse(json) == <<"InvalidResponse", json>>

----------------------------------------------------------------------------
(* ResponseParser::parse_response *)

\* mutant of ChatParseResponse: a wrong data value is reported alone
ChatParseResponse_data(json) ==
  IF IsObject(json) /\ Get(json, DataKey)[1] = "Some"
  THEN LET message == AsStr(Get(json, DataKey)[2]) IN
       IF message[1] = "Some" THEN <<"Ok", message[2]>>
       ELSE InvalidResponse(Get(json, DataKey)[2])
  ELSE InvalidResponse(json)

ChatParseResponse(json) ==
  IF IsObject(json)
  THEN LET data == Get(json, DataKey) IN
       IF data[1] = "Some"
       THEN LET message == AsStr(data[2]) IN
            IF message[1] = "Some" THEN <<"Ok", message[2]>>
            ELSE InvalidResponse(json)
       ELSE InvalidResponse(json)
  ELSE InvalidResponse(json)

RelatedParseResponse(json) ==
  IF IsObject(json)
  THEN LET data == Get(json, DataKey) IN
       IF data[1] = "Some"
       THEN LET values == AsArray(data[2]) IN
            IF values[1] = "Some" THEN <<"Ok", values[2]>>
            ELSE InvalidResponse(json)
       ELSE InvalidResponse(json)
  ELSE InvalidResponse(json)

\* mutant of SimilarityParseResponse: a score that is no number reads as 0
SimilarityParseResponse_lenient(json) ==
  IF IsObject(json) /\ Get(json, DataKey)[1] = "Some"
     /\ Get(Get(json, DataKey)[2], ScoreKey)[1] = "Some"
  THEN LET score == AsF64(Get(Get(json, DataKey)[2], ScoreKey)[2]) IN
       IF score[1] = "Some" THEN <<"Ok", score[2]>> ELSE <<"Ok", 0>>
  ELSE InvalidResponse(json)

SimilarityParseResponse(json) ==
  IF IsObject(json)
  THEN LET data == Get(json, DataKey) IN
       IF data[1] = "Some"
       THEN LET field == Get(data[2], ScoreKey)
                score == IF field[1] = "Some" THEN AsF64(field[2]) ELSE <<"None">>
            IN IF score[1] = "Some" THEN <<"Ok", score[2]>>
               ELSE InvalidResponse(json)
       ELSE InvalidResponse(json)
  ELSE InvalidResponse(json)

ChatParse ==
  /\ parser' = "chat"
  /\ outcome' = ChatParseResponse(payload)
  /\ UNCHANGED <<readerVars, op, text, result, payload>>

RelatedParse ==
  /\ parser' = "related"
  /\ outcome' = RelatedParseResponse(payload)
  /\ UNCHANGED <<readerVars, op, text, result, payload>>

SimilarityParse ==
  /\ parser' = "similarity"
  /\ outcome' = SimilarityParseResponse(payload)
  /\ UNCHANGED <<readerVars, op, text, result, payload>>

InitResp ==
  /\ IdleReader
  /\ op = "none" /\ result = <<"None">> /\ text = <<>>
  /\ payload \in Payloads /\ parser = "none" /\ outcome = <<"None">>

NextResp == ChatParse \/ RelatedParse \/ SimilarityParse

SpecResp == InitResp /\ [][NextResp]_vars

----------------------------------------------------------------------------
(* Properties *)

RECURSIVE Split(_, _, _, _)
\* the lines of stream s, each with its terminator, read left to right:
\* cur is the line being collected, acc the lines already complete
Split(s, i, cur, acc) ==
  IF i > Len(s) THEN (IF cur = <<>> THEN acc ELSE Append(acc, cur))
  ELSE IF s[i] = NL THEN Split(s, i + 1, <<>>, Append(acc, Append(cur, NL)))
  ELSE Split(s, i + 1, Append(cur, s[i]), acc)

SplitLines(s) == Split(s, 1, <<>>, <<>>)

NotJsonHere == <<"n", "o", "t", " ", "j", "s", "o", "n">>
OneTwoThree == <<"[", "1", ",", "2", ",", "3", "]">>

\* C1: parse of a text that is not valid JSON returns Ok, and the object
\* returned has the single field "message" whose value is the text unchanged.
C1_NonJsonFallsBack ==
  (op = "parse" /\ FromStr(text)[1] # "Ok") =>
    /\ result[1] = "Ok"
    /\ result[2][1] = "obj"
    /\ DOMAIN result[2][2] = {MessageKey}
    /\ result[2][2][MessageKey] = <<"str", text>>

C1_Witness ==
  /\ op = "parse" /\ text = NotJsonHere
  /\ result = <<"Ok", JObj([k \in {MessageKey} |-> JStr(NotJsonHere)])>>

\* C2: parse of a text that is valid JSON but whose top-level value is an
\* array, string, number, boolean or null fails with NotObject carrying the
\* text verbatim.
C2_NonObjectRejected ==
  (op = "parse" /\ FromStr(text)[1] = "Ok"
     /\ FromStr(text)[2][1] \in {"arr", "str", "num", "bool", "null"}) =>
    result = <<"NotObject", text>>

C2_Witness ==
  /\ op = "parse" /\ text = OneTwoThree
  /\ result = <<"NotObject", OneTwoThree>>

\* C3: next fails with Disconnect exactly when the read succeeded with zero
\* bytes; a read of at least one byte (a blank line included) and a failed
\* read never give Disconnect.
C3_DisconnectIffEmptyRead ==
  op = "next" => (result = <<"Disconnect">> <=> readRet = <<"Ok", 0>>)

C3_Witness ==
  /\ op = "next" /\ input = <<NL>> /\ calls = 2 /\ ~ioSeen
  /\ readRet = <<"Ok", 0>> /\ result = <<"Disconnect">>

\* C4: as long as no read has failed, the k-th call of next leaves exactly
\* the k-th line of the stream in the buffer and returns parse of that line,
\* whatever the earlier calls returned.
C4_EachCallItsOwnLine ==
  (calls >= 1 /\ ~ioSeen /\ calls <= Len(SplitLines(input))) =>
    /\ buf = SplitLines(input)[calls]
    /\ op = "next" => result = Parse(SplitLines(input)[calls])
    /\ op = "next" => parseArg = <<"Some", SplitLines(input)[calls]>>

C4_Witness ==
  /\ op = "next" /\ calls = 3 /\ ~ioSeen
  /\ input = <<"[", "1", "]", NL, "n", "u", "l", NL, "{", "}", NL>>
  /\ buf = <<"{", "}", NL>>
  /\ result = <<"Ok", JObj(EmptyMap)>>

\* C5: every value returned as Ok by parse or by next is a JSON object.
C5_OkIsObject ==
  result[1] = "Ok" => result[2][1] = "obj"

C5_Witness ==
  /\ op = "next"
  /\ buf = <<"n", "u", "l", NL>>
  /\ result = <<"Ok", JObj([k \in {MessageKey} |-> JStr(<<"n", "u", "l", NL>>)])>>

\* C6: whenever one of the three response parsers fails, the error is
\* InvalidResponse carrying the whole payload.
C6_FailureCarriesPayload ==
  (parser # "none" /\ outcome[1] # "Ok") => outcome = <<"InvalidResponse", payload>>

C6_Witness ==
  /\ parser = "similarity"
  /\ payload = JObj([k \in {DataKey} |-> JObj([j \in {ScoreKey} |-> JStr(<<"h", "i">>)])])
  /\ outcome = <<"InvalidResponse", payload>>

HasData == payload[1] = "obj" /\ DataKey \in DOMAIN payload[2]
DataOf == payload[2][DataKey]

\* C7: a response parser succeeds exactly when the payload is an object, it
\* has a data field, and data has the shape the parser expects (a string; an
\* array; an object with a numeric score); the string and the score are the
\* values returned.
C7_SucceedsIffShape ==
  /\ parser = "chat" =>
       /\ outcome[1] = "Ok" <=> (HasData /\ DataOf[1] = "str")
       /\ outcome[1] = "Ok" => outcome[2] = DataOf[2]
  /\ parser = "related" =>
       (outcome[1] = "Ok" <=> (HasData /\ DataOf[1] = "arr"))
  /\ parser = "similarity" =>
       /\ outcome[1] = "Ok" <=>
            /\ HasData /\ DataOf[1] = "obj"
            /\ ScoreKey \in DOMAIN DataOf[2]
            /\ DataOf[2][ScoreKey][1] = "num"
       /\ outcome[1] = "Ok" => outcome[2] = DataOf[2][ScoreKey][2]

C7_Witness ==
  /\ parser = "chat"
  /\ payload = JObj([k \in {DataKey} |-> JStr(<<"h", "i">>)])
  /\ outcome = <<"Ok", <<"h", "i">>>>

\* C8: on an object whose data field is an array, the list parser returns
\* a sequence of the same length with the same elements in the same order,
\* whatever the elements are.
C8_ListUnchanged ==
  (parser = "related" /\ HasData /\ DataOf[1] = "arr") =>
    /\ outcome[1] = "Ok"
    /\ Len(outcome[2]) = Len(DataOf[2])
    /\ \A i \in 1..Len(DataOf[2]) : outcome[2][i] = DataOf[2][i]

C8_Witness ==
  /\ parser = "related"
  /\ payload = JObj([k \in {DataKey} |-> JArr(<<JNum(1), JStr(<<"a">>), JBool(TRUE)>>)])
  /\ outcome = <<"Ok", <<JNum(1), JStr(<<"a">>), JBool(TRUE)>>>>

\* C9: when the line read fails, next returns the I/O error and parse is
\* not called.
C9_IoErrorPropagates ==
  (op = "next" /\ readRet = <<"Err">>) =>
    (result = <<"Io">> /\ parseArg = <<"None">>)

C9_Witness ==
  /\ op = "next" /\ readRet = <<"Err">> /\ buf # <<>>
  /\ result = <<"Io">> /\ parseArg = <<"None">>

\* C10: next returns Ok only for lines that are valid JSON objects.
C10_OkOnlyForJsonObjects ==
  (op = "next" /\ result[1] = "Ok") =>
    (FromStr(buf)[1] = "Ok" /\ FromStr(buf)[2][1] = "obj")

====
